---- MODULE Spec2Model ----
(***************************************************************************)
(* Model of the parallel scheduling core of aide (aide/parallel_agent.py   *)
(* and the Experiment driver of aide/__init__.py): a ParallelAgent         *)
(* (scheduler) that drives a pool of ParallelWorker Ray actors through a   *)
(* propose phase and an evaluate phase per step(), aggregates the          *)
(* evaluated nodes into the Journal, and tears the pool down in cleanup(). *)
(*                                                                         *)
(* The specifications share the variables:                                 *)
(*   Spec      the scheduler, its workers and their request queues;        *)
(*   LiveSpec  the step() calls of Spec alone, as Experiment.run makes     *)
(*             them, with the fairness of a running scheduler and of       *)
(*             actors that work through their queues;                      *)
(*   PartSpec  the partitioning loop of step() (lines 135-146) run on an   *)
(*             arbitrary pending sequence and pool size;                   *)
(*   GenSpec   one generate_nodes call (lines 28-41) on an arbitrary       *)
(*             parent and count.                                           *)
(***************************************************************************)
EXTENDS Integers, Sequences, FiniteSets, TLC

(* ----------------------------- bounds ---------------------------------- *)
\* PartSpec: longest pending sequence and largest pool tried.
MaxPending == 10
MaxPool == 4
\* Spec: number of step() calls and cleanup() calls a behaviour may make.
MaxSteps == 2
MaxCleanups == 2
\* GenSpec: largest num_nodes tried.
MaxGen == 4

(* ------------------------- configuration ------------------------------- *)
\* cfg.agent.parallel.num_workers and cfg.agent.parallel.nodes_per_worker.
num_workers == 2
nodes_per_worker == 1

VARIABLES
  \* ---- PartSpec: the partitioning loop on its own
  pt_nodes,     \* all_nodes: the pending sequence
  pt_P,         \* len(self.workers)
  pt_i,         \* the loop index i of "for i, worker in enumerate(self.workers)"
  pt_slices,    \* worker_nodes of the iterations done so far
  \* ---- GenSpec: one generate_nodes call on its own
  gn_parent,    \* parent_node: <<>> for None, <<n>> for the node n
  gn_num,       \* num_nodes
  gn_step,      \* the step the call belongs to
  gn_worker,    \* the worker that runs the call
  gn_result,    \* the list the call returned
  gn_done,      \* whether the call has returned
  \* ---- Spec: the scheduler (ParallelAgent)
  pc,           \* position of the scheduler's control flow
  journal,      \* self.journal.nodes: the main collection
  draft_nodes,  \* self.journal.draft_nodes: the draft list
  data_preview, \* self.data_preview
  idx,          \* index of the loop the scheduler is in (requests issued so far)
  all_nodes,    \* all_nodes: the pending sequence of the current step
  node_futures, \* node_futures: one per worker
  exec_futures, \* exec_futures: one per dispatched node, in dispatch order
  td_future,    \* the cleanup_interpreter call cleanup() is waiting for
  ray_up,       \* TRUE from ray.init() to ray.shutdown()
  steps,        \* step() calls started
  cleanups,     \* cleanup() calls started
  step_result,  \* how the last step() call ended
  cleanup_result, \* how the last cleanup() call ended
  save_result,  \* what the last save_run of step() did
  \* ---- Spec: the workers (ParallelWorker actors)
  inbox,        \* per worker: the actor's FIFO queue of method calls
  worker_journal, \* per worker: its own copy of the Journal (Agent.journal)
  td_requests,  \* per worker: cleanup_interpreter calls the scheduler issued
  td_done,      \* per worker: interpreter.cleanup_session() runs
  \* ---- history variables
  journal_at_start, \* the main collection when the current/last step() began
  drafts_at_start,  \* the draft list when the current/last step() began
  preview_fetches \* get_data_preview calls made by the scheduler

pt_vars == <<pt_nodes, pt_P, pt_i, pt_slices>>
gn_vars == <<gn_parent, gn_num, gn_step, gn_worker, gn_result, gn_done>>
sched_vars == <<pc, journal, draft_nodes, data_preview, idx, all_nodes,
                node_futures, exec_futures, td_future, ray_up, steps, cleanups, step_result,
                cleanup_result, save_result>>
worker_vars == <<inbox, worker_journal, td_requests, td_done>>
hist_vars == <<journal_at_start, drafts_at_start, preview_fetches>>
vars == <<pt_vars, gn_vars, sched_vars, worker_vars, hist_vars>>

(* ----------------------------- helpers --------------------------------- *)
Max(a, b) == IF a >= b THEN a ELSE b
Min(a, b) == IF a <= b THEN a ELSE b

\* Python's s[a:b] for 0 <= a, 0 <= b: both ends are clamped to len(s), and
\* the slice is empty when a >= b.
PySlice(s, a, b) == SubSeq(s, Min(a, Len(s)) + 1, Min(b, Len(s)))

RECURSIVE Concat(_)
Concat(ss) == IF ss = <<>> THEN <<>> ELSE Head(ss) \o Concat(Tail(ss))

Range(s) == {s[k] : k \in DOMAIN s}

(* ------------------------ partitioning (135-146) ----------------------- *)
\* Mutant of nodes_per_executor: the quotient is rounded up.
nodes_per_executor_Ceil(nodes, P) == Max(1, (Len(nodes) + P - 1) \div P)

\* nodes_per_executor = max(1, len(all_nodes) // len(self.workers))
nodes_per_executor(nodes, P) == Max(1, Len(nodes) \div P)

\* Mutants of WorkerSlice: the last slice cut like the others; no max(1, .).
WorkerSlice_NoRemainder(nodes, P, i) ==
  LET start_idx == i * nodes_per_executor(nodes, P)
  IN  PySlice(nodes, start_idx, start_idx + nodes_per_executor(nodes, P))

WorkerSlice_NoMax(nodes, P, i) ==
  LET npe == Len(nodes) \div P
      start_idx == i * npe
      end_idx == IF i < P - 1 THEN start_idx + npe ELSE Len(nodes)
  IN  PySlice(nodes, start_idx, end_idx)

\* Mutant of WorkerSlice: every slice starts at the head of the sequence.
WorkerSlice_FromZero(nodes, P, i) ==
  LET end_idx == IF i < P - 1 THEN nodes_per_executor(nodes, P) ELSE Len(nodes)
  IN  PySlice(nodes, 0, end_idx)

\* Mutant of WorkerSlice: worker i is handed the slice of the worker after it.
WorkerSlice_NextWorkers(nodes, P, i) ==
  LET j == (i + 1) % P
      start_idx == j * nodes_per_executor(nodes, P)
      end_idx == IF j < P - 1
                 THEN start_idx + nodes_per_executor(nodes, P)
                 ELSE Len(nodes)
  IN  PySlice(nodes, start_idx, end_idx)

\* worker_nodes of iteration i (0-based) of the dispatch loop.
WorkerSlice(nodes, P, i) ==
  LET start_idx == i * nodes_per_executor(nodes, P)
      end_idx == IF i < P - 1
                 THEN start_idx + nodes_per_executor(nodes, P)
                 ELSE Len(nodes)
  IN  PySlice(nodes, start_idx, end_idx)

(* ------------------------------ nodes ---------------------------------- *)
\* A Node: id, parent (0 for None), is_buggy ("None" until evaluated, then
\* "True" or "False") and metric (<<>> until evaluated, then <<v>>: <<0>> is
\* the worst metric value, given to a buggy node, <<1>> a derived value), and
\* stage: which of _draft, _debug and _improve made it.
NewNode(id, parent, stage) ==
  [id |-> id, parent |-> parent, stage |-> stage, is_buggy |-> "None",
   metric |-> <<>>]

WithVerdict(n, v) == [n EXCEPT !.is_buggy = v.is_buggy, !.metric = v.metric]

Evaluated(n) == n.is_buggy # "None" /\ n.metric # <<>>

\* What the sandbox run and the metric derivation can make of a node.
Verdicts ==
  {[is_buggy |-> "True", metric |-> <<0>>],
   [is_buggy |-> "False", metric |-> <<1>>]}

\* Journals a scheduler can be constructed on: a fresh one (Experiment), or
\* one already holding an evaluated draft.
InitJournals ==
  {<<>>} \cup
  {<<WithVerdict(NewNode(1, 0, "draft"), v)>> : v \in Verdicts}

Workers == 1..num_workers

\* The uuid of the k-th node worker w generates in step number s: distinct
\* from every other node's and from the id 1 of a node the Journal began with.
NodeId(s, w, k) ==
  1 + (s - 1) * num_workers * nodes_per_worker + (w - 1) * nodes_per_worker + k

DraftsOf(nodes) == SelectSeq(nodes, LAMBDA n : n.parent = 0)

(* ------------------------------ Init ----------------------------------- *)
PtIdle ==
  /\ pt_nodes = <<>>
  /\ pt_P = 1
  /\ pt_i = 1
  /\ pt_slices = <<<<>>>>

GnIdle ==
  /\ gn_parent = <<>>
  /\ gn_num = 0
  /\ gn_step = 1
  /\ gn_worker = 1
  /\ gn_result = <<>>
  /\ gn_done = TRUE

\* ParallelAgent.__init__ on Journal j with cfg.agent.data_preview = dp.
AgentInit(j, dp) ==
  /\ pc = "idle"
  /\ journal = j
  /\ draft_nodes = DraftsOf(j)
  /\ data_preview = IF dp THEN "generated" ELSE "None"
  /\ idx = 0
  /\ all_nodes = <<>>
  /\ node_futures = [w \in Workers |-> [state |-> "none", nodes |-> <<>>]]
  /\ exec_futures = <<>>
  /\ td_future = "none"
  /\ ray_up = TRUE
  /\ steps = 0
  /\ cleanups = 0
  /\ step_result = "none"
  /\ cleanup_result = "none"
  /\ save_result = "none"
  /\ inbox = [w \in Workers |-> <<>>]
  /\ worker_journal = [w \in Workers |-> j]
  /\ td_requests = [w \in Workers |-> 0]
  /\ td_done = [w \in Workers |-> 0]
  /\ journal_at_start = j
  /\ drafts_at_start = DraftsOf(j)
  /\ preview_fetches = 0

Init ==
  /\ PtIdle
  /\ GnIdle
  /\ \E j \in InitJournals, dp \in BOOLEAN : AgentInit(j, dp)

(* --------------------------- the workers ------------------------------- *)
Pop(w) == [inbox EXCEPT ![w] = Tail(@)]
Push(w, req) == [inbox EXCEPT ![w] = Append(@, req)]
HeadIs(w, op) == inbox[w] # <<>> /\ Head(inbox[w]).op = op

\* Whether the scheduler still holds the future a request answers: a step()
\* that raised dropped its futures, and the actor runs the call all the same.
Awaited(req, phases) == req.step = steps /\ pc \in phases

\* search_policy(): None (<<>>), or a node n of the worker's own Journal
\* (<<n>>).
ParentChoices(w) == {<<>>} \cup {<<n>> : n \in Range(worker_journal[w])}

\* Agent._draft(), _debug(parent_node), _improve(parent_node): a new
\* unevaluated node, parentless or a child of parent_node.
draft(id) == NewNode(id, 0, "draft")
debug(id, parent_node) == NewNode(id, parent_node.id, "debug")
improve(id, parent_node) == NewNode(id, parent_node.id, "improve")

\* Mutant of generate_nodes: the loop runs once even for num_nodes = 0.
generate_nodes_AtLeastOne(s, w, parent_node, num_nodes) ==
  [k \in 1..Max(1, num_nodes) |->
     IF parent_node = <<>> THEN draft(NodeId(s, w, k))
     ELSE IF parent_node[1].is_buggy = "True"
          THEN debug(NodeId(s, w, k), parent_node[1])
          ELSE improve(NodeId(s, w, k), parent_node[1])]

\* generate_nodes(parent_node, num_nodes) of worker w in step s: one node per
\* iteration of "for _ in range(num_nodes)", made by _draft for parent None,
\* by _debug for a parent whose is_buggy is true, by _improve otherwise.
generate_nodes(s, w, parent_node, num_nodes) ==
  [k \in 1..num_nodes |->
     IF parent_node = <<>> THEN draft(NodeId(s, w, k))
     ELSE IF parent_node[1].is_buggy = "True"
          THEN debug(NodeId(s, w, k), parent_node[1])
          ELSE improve(NodeId(s, w, k), parent_node[1])]

\* search_and_generate: the head call of worker w's queue runs; it returns
\* its nodes or raises (no try/except around the proposal engine).
WorkerGenerate(w) ==
  /\ HeadIs(w, "generate")
  /\ inbox' = Pop(w)
  /\ IF Awaited(Head(inbox[w]), {"propose_issue", "propose_wait"})
     THEN \E raised \in BOOLEAN, parent \in ParentChoices(w) :
            node_futures' = [node_futures EXCEPT ![w] =
              IF raised
              THEN [state |-> "error", nodes |-> <<>>]
              ELSE [state |-> "ok",
                    nodes |-> generate_nodes(steps, w, parent, nodes_per_worker)]]
     ELSE UNCHANGED node_futures
  /\ UNCHANGED <<pt_vars, gn_vars, pc, journal, draft_nodes, data_preview, idx, all_nodes,
                 exec_futures, td_future, ray_up, steps, cleanups, step_result,
                 cleanup_result, save_result, worker_journal, td_requests,
                 td_done, hist_vars>>

\* Mutant of execute_and_evaluate_node: a failed run is turned into a buggy
\* node that is returned as the result.
execute_and_evaluate_node_ReturnsBuggy(node, raised, v) ==
  IF raised
  THEN [state |-> "ok", tried |-> "raised", logged |-> TRUE,
        node |-> WithVerdict(node, [is_buggy |-> "True", metric |-> <<0>>])]
  ELSE [state |-> "ok", tried |-> "returned", logged |-> FALSE,
        node |-> WithVerdict(node, v)]

\* execute_and_evaluate_node(node): what the call leaves in its future. The
\* try block runs the code, absorbs the result and derives is_buggy and metric
\* on the worker's copy of the node, and returns that copy (state "ok"); when
\* the run or the derivation raised, the except block logs the error and
\* re-raises (state "error": the future holds the exception and no node; the
\* scheduler's own node object stays as it was).
execute_and_evaluate_node(node, raised, v) ==
  IF raised
  THEN [state |-> "error", tried |-> "raised", logged |-> TRUE, node |-> node]
  ELSE [state |-> "ok", tried |-> "returned", logged |-> FALSE,
        node |-> WithVerdict(node, v)]

WorkerEvaluate(w) ==
  /\ HeadIs(w, "evaluate")
  /\ inbox' = Pop(w)
  /\ LET req == Head(inbox[w]) IN
     IF Awaited(req, {"evaluate_issue", "evaluate_wait"})
     THEN \E raised \in BOOLEAN, v \in Verdicts :
            LET r == execute_and_evaluate_node(req.node, raised, v) IN
            exec_futures' = [exec_futures EXCEPT ![req.slot] =
              [@ EXCEPT !.state = r.state, !.tried = r.tried,
                        !.logged = r.logged, !.node = r.node]]
     ELSE UNCHANGED exec_futures
  /\ UNCHANGED <<pt_vars, gn_vars, pc, journal, draft_nodes, data_preview, idx, all_nodes,
                 node_futures, td_future, ray_up, steps, cleanups, step_result,
                 cleanup_result, save_result, worker_journal, td_requests,
                 td_done, hist_vars>>

\* cleanup_interpreter(): interpreter.cleanup_session() runs, or raises.
WorkerTeardown(w) ==
  /\ HeadIs(w, "cleanup")
  /\ inbox' = Pop(w)
  /\ \E raised \in BOOLEAN :
       /\ td_future' = IF raised THEN "error" ELSE "ok"
       /\ td_done' = IF raised THEN td_done ELSE [td_done EXCEPT ![w] = @ + 1]
  /\ UNCHANGED <<pt_vars, gn_vars, pc, journal, draft_nodes, data_preview, idx, all_nodes,
                 node_futures, exec_futures, ray_up, steps, cleanups, step_result,
                 cleanup_result, save_result, worker_journal, td_requests,
                 hist_vars>>

(* -------------------------- the scheduler: step() ---------------------- *)
\* update_data_preview(): fetches from the first worker only when the
\* attribute data_preview does not exist ("unset"); __init__ always sets it.
HasDataPreview == data_preview # "unset"

\* Lines 107-114: step() is entered; on an empty Journal the data preview is
\* updated.
StepBegin ==
  /\ pc = "idle"
  /\ steps < MaxSteps
  /\ steps' = steps + 1
  /\ IF journal = <<>> /\ ~HasDataPreview
     THEN /\ data_preview' = "generated"
          /\ preview_fetches' = preview_fetches + 1
     ELSE UNCHANGED <<data_preview, preview_fetches>>
  /\ node_futures' = [w \in Workers |-> [state |-> "none", nodes |-> <<>>]]
  /\ exec_futures' = <<>>
  /\ all_nodes' = <<>>
  /\ idx' = 0
  /\ pc' = "propose_issue"
  /\ step_result' = "running"
  /\ journal_at_start' = journal
  /\ drafts_at_start' = draft_nodes
  /\ save_result' = "none"
  /\ UNCHANGED <<pt_vars, gn_vars, journal, draft_nodes, td_future, ray_up, cleanups,
                 cleanup_result, worker_vars>>

\* Lines 117-120: worker.search_and_generate.remote(nodes_per_worker) for the
\* next worker of the pool. After ray.shutdown() the actor is gone and the
\* call raises out of step().
IssueGenerate ==
  /\ pc = "propose_issue"
  /\ LET w == idx + 1 IN
     IF ray_up
     THEN /\ inbox' = Push(w, [op |-> "generate", step |-> steps])
          /\ node_futures' = [node_futures EXCEPT ![w].state = "pending"]
          /\ idx' = idx + 1
          /\ pc' = IF idx + 1 = num_workers THEN "propose_wait" ELSE "propose_issue"
          /\ UNCHANGED step_result
     ELSE /\ pc' = "idle"
          /\ step_result' = "raised"
          /\ UNCHANGED <<inbox, node_futures, idx>>
  /\ UNCHANGED <<pt_vars, gn_vars, journal, draft_nodes, data_preview, all_nodes,
                 exec_futures, td_future, ray_up, steps, cleanups,
                 cleanup_result, save_result, worker_journal, td_requests,
                 td_done, hist_vars>>

\* step() is left, by return or by an exception: its locals are gone.
StepLocalsDropped ==
  /\ node_futures' = [w \in Workers |-> [state |-> "none", nodes |-> <<>>]]
  /\ exec_futures' = <<>>
  /\ all_nodes' = <<>>
  /\ idx' = 0

\* Mutant of AllOk: the wait ends with the first value (ray.wait).
AllOk_FirstValue(states) == \E s \in states : s = "ok"

\* ray.get(futures): returns once every future holds a value, raises as soon
\* as one holds an exception.
AllOk(states) == \A s \in states : s = "ok"
AnyError(states) == \E s \in states : s = "error"

\* Mutant of Flatten: the lists are taken from the last worker to the first.
Flatten_LastWorkerFirst(generated_nodes) ==
  Concat([w \in 1..num_workers |-> generated_nodes[num_workers + 1 - w].nodes])

\* Lines 129-132: the workers' lists flattened in pool order.
Flatten(generated_nodes) ==
  Concat([w \in 1..num_workers |-> generated_nodes[w].nodes])

\* Mutant of AwaitGenerate: the wait gives up on the futures that are still
\* pending and goes on with the lists that have arrived.
AwaitGenerate_SkipsPending ==
  /\ pc = "propose_wait"
  /\ ~AnyError({node_futures[w].state : w \in Workers})
  /\ \E w \in Workers : node_futures[w].state = "ok"
  /\ all_nodes' = Flatten(node_futures)
  /\ idx' = 0
  /\ pc' = IF Flatten(node_futures) = <<>> THEN "evaluate_wait" ELSE "evaluate_issue"
  /\ UNCHANGED <<pt_vars, gn_vars, journal, draft_nodes, data_preview, node_futures,
                 exec_futures, td_future, ray_up, steps, cleanups, step_result,
                 cleanup_result, save_result, worker_vars, hist_vars>>

\* Lines 124-135: ray.get(node_futures) returns and all_nodes is built.
AwaitGenerate ==
  /\ pc = "propose_wait"
  /\ AllOk({node_futures[w].state : w \in Workers})
  /\ all_nodes' = Flatten(node_futures)
  /\ idx' = 0
  /\ pc' = IF Flatten(node_futures) = <<>> THEN "evaluate_wait" ELSE "evaluate_issue"
  /\ UNCHANGED <<pt_vars, gn_vars, journal, draft_nodes, data_preview, node_futures,
                 exec_futures, td_future, ray_up, steps, cleanups, step_result,
                 cleanup_result, save_result, worker_vars, hist_vars>>

\* Line 124: ray.get(node_futures) raises out of step().
AwaitGenerateRaises ==
  /\ pc = "propose_wait"
  /\ AnyError({node_futures[w].state : w \in Workers})
  /\ pc' = "idle"
  /\ step_result' = "raised"
  /\ StepLocalsDropped
  /\ UNCHANGED <<pt_vars, gn_vars, journal, draft_nodes, data_preview, td_future, ray_up,
                 steps, cleanups, cleanup_result, save_result, worker_vars,
                 hist_vars>>

\* Lines 139-146: the calls the dispatch loop makes, in order: for each worker
\* i, one execute_and_evaluate_node call per node of its slice.
RECURSIVE DispatchFrom(_, _)
DispatchFrom(nodes, i) ==
  IF i >= num_workers THEN <<>>
  ELSE LET worker_nodes == WorkerSlice(nodes, num_workers, i) IN
       [k \in 1..Len(worker_nodes) |-> [node |-> worker_nodes[k], worker |-> i + 1]]
         \o DispatchFrom(nodes, i + 1)

Dispatch(nodes) == DispatchFrom(nodes, 0)

\* Line 146: the next execute_and_evaluate_node.remote(node) of the loop.
IssueEvaluate ==
  /\ pc = "evaluate_issue"
  /\ LET d == Dispatch(all_nodes)[idx + 1] IN
       /\ inbox' = Push(d.worker, [op |-> "evaluate", step |-> steps,
                                   slot |-> idx + 1, node |-> d.node])
       /\ exec_futures' = Append(exec_futures,
            [node |-> d.node, worker |-> d.worker, state |-> "pending",
             tried |-> "pending", logged |-> FALSE])
  /\ idx' = idx + 1
  /\ pc' = IF idx + 1 = Len(Dispatch(all_nodes)) THEN "evaluate_wait"
           ELSE "evaluate_issue"
  /\ UNCHANGED <<pt_vars, gn_vars, journal, draft_nodes, data_preview, all_nodes,
                 node_futures, td_future, ray_up, steps, cleanups, step_result,
                 cleanup_result, save_result, worker_journal, td_requests,
                 td_done, hist_vars>>

\* journal.append(node) and draft_nodes.append(node): the node is added at
\* the end of the list.
JournalAppend(nodes, n) == Append(nodes, n)

\* Mutant of AggregateDrafts: the test of node.parent is dropped.
RECURSIVE AggregateDrafts_NoParentTest(_, _)
AggregateDrafts_NoParentTest(drafts, evaluated) ==
  IF evaluated = <<>> THEN drafts
  ELSE AggregateDrafts_NoParentTest(JournalAppend(drafts, Head(evaluated)),
                                    Tail(evaluated))

\* Lines 158-161: the loop over evaluated_nodes, as it acts on the draft list
\* and on the main collection.
RECURSIVE AggregateDrafts(_, _)
AggregateDrafts(drafts, evaluated) ==
  IF evaluated = <<>> THEN drafts
  ELSE AggregateDrafts(IF Head(evaluated).parent = 0
                       THEN JournalAppend(drafts, Head(evaluated))
                       ELSE drafts,
                       Tail(evaluated))

\* Mutants of AggregateJournal: the evaluated nodes are put in front of the
\* collection; only the nodes that are not buggy are kept.
AggregateJournal_Prepend(nodes, evaluated) == evaluated \o nodes

AggregateJournal_OnlyGood(nodes, evaluated) ==
  nodes \o SelectSeq(evaluated, LAMBDA n : n.is_buggy # "True")

RECURSIVE AggregateJournal(_, _)
AggregateJournal(nodes, evaluated) ==
  IF evaluated = <<>> THEN nodes
  ELSE AggregateJournal(JournalAppend(nodes, Head(evaluated)), Tail(evaluated))

\* Mutant of evaluated_nodes: the scheduler's own copies of the nodes, which
\* the workers never touched, are taken instead of the returned ones.
evaluated_nodes_OwnCopies == all_nodes

\* Line 150: what ray.get(exec_futures) returns, in the order of exec_futures.
evaluated_nodes == [k \in DOMAIN exec_futures |-> exec_futures[k].node]

\* Mutant of AwaitEvaluate: a failing save_run is not caught: the exception
\* leaves step().
AwaitEvaluate_SaveFailureRaises ==
  /\ pc = "evaluate_wait"
  /\ AllOk({exec_futures[k].state : k \in DOMAIN exec_futures})
  /\ draft_nodes' = AggregateDrafts(draft_nodes, evaluated_nodes)
  /\ journal' = AggregateJournal(journal, evaluated_nodes)
  /\ \E saved \in BOOLEAN :
       /\ save_result' = IF saved THEN "saved" ELSE "failed"
       /\ step_result' = IF saved THEN "returned" ELSE "raised"
  /\ pc' = "idle"
  /\ StepLocalsDropped
  /\ UNCHANGED <<pt_vars, gn_vars, data_preview, td_future, ray_up, steps, cleanups,
                 cleanup_result, worker_vars, hist_vars>>

\* Mutant of AwaitEvaluate: the workers hold the scheduler's Journal itself,
\* not a copy, and see what the step has appended.
AwaitEvaluate_SharedJournal ==
  /\ pc = "evaluate_wait"
  /\ AllOk({exec_futures[k].state : k \in DOMAIN exec_futures})
  /\ draft_nodes' = AggregateDrafts(draft_nodes, evaluated_nodes)
  /\ journal' = AggregateJournal(journal, evaluated_nodes)
  /\ worker_journal' = [w \in Workers |-> journal']
  /\ \E saved \in BOOLEAN : save_result' = IF saved THEN "saved" ELSE "failed"
  /\ pc' = "idle"
  /\ step_result' = "returned"
  /\ StepLocalsDropped
  /\ UNCHANGED <<pt_vars, gn_vars, data_preview, td_future, ray_up, steps, cleanups,
                 cleanup_result, inbox, td_requests, td_done, hist_vars>>

\* Lines 150-184: ray.get(exec_futures) returns, the nodes are appended to the
\* Journal, and save_run runs inside try/except (a failure is only logged).
AwaitEvaluate ==
  /\ pc = "evaluate_wait"
  /\ AllOk({exec_futures[k].state : k \in DOMAIN exec_futures})
  /\ draft_nodes' = AggregateDrafts(draft_nodes, evaluated_nodes)
  /\ journal' = AggregateJournal(journal, evaluated_nodes)
  /\ \E saved \in BOOLEAN : save_result' = IF saved THEN "saved" ELSE "failed"
  /\ pc' = "idle"
  /\ step_result' = "returned"
  /\ StepLocalsDropped
  /\ UNCHANGED <<pt_vars, gn_vars, data_preview, td_future, ray_up, steps, cleanups,
                 cleanup_result, worker_vars, hist_vars>>

\* Mutant of AwaitEvaluateRaises: the nodes whose evaluation returned are
\* appended before the exception leaves step().
AwaitEvaluateRaises_KeepsDone ==
  /\ pc = "evaluate_wait"
  /\ AnyError({exec_futures[k].state : k \in DOMAIN exec_futures})
  /\ LET done == SelectSeq(exec_futures, LAMBDA f : f.state = "ok")
         nodes == [k \in DOMAIN done |-> done[k].node]
     IN  /\ draft_nodes' = AggregateDrafts(draft_nodes, nodes)
         /\ journal' = AggregateJournal(journal, nodes)
  /\ pc' = "idle"
  /\ step_result' = "raised"
  /\ StepLocalsDropped
  /\ UNCHANGED <<pt_vars, gn_vars, data_preview, td_future, ray_up, steps, cleanups,
                 cleanup_result, save_result, worker_vars, hist_vars>>

\* Line 150: ray.get(exec_futures) raises out of step().
AwaitEvaluateRaises ==
  /\ pc = "evaluate_wait"
  /\ AnyError({exec_futures[k].state : k \in DOMAIN exec_futures})
  /\ pc' = "idle"
  /\ step_result' = "raised"
  /\ StepLocalsDropped
  /\ UNCHANGED <<pt_vars, gn_vars, journal, draft_nodes, data_preview, td_future, ray_up,
                 steps, cleanups, cleanup_result, save_result, worker_vars,
                 hist_vars>>

(* ------------------------ the scheduler: cleanup() --------------------- *)
\* Lines 186-187: cleanup() is entered.
CleanupBegin ==
  /\ pc = "idle"
  /\ cleanups < MaxCleanups
  /\ cleanups' = cleanups + 1
  /\ pc' = "cleanup_issue"
  /\ idx' = 0
  /\ td_future' = "none"
  /\ cleanup_result' = "running"
  /\ UNCHANGED <<pt_vars, gn_vars, journal, draft_nodes, data_preview, all_nodes,
                 node_futures, exec_futures, ray_up, steps, step_result,
                 save_result, worker_vars, hist_vars>>

\* Line 189: worker.cleanup_interpreter.remote() for the next worker. After
\* ray.shutdown() the actor is gone and the call raises out of cleanup().
IssueTeardown ==
  /\ pc = "cleanup_issue"
  /\ LET w == idx + 1 IN
       /\ td_requests' = [td_requests EXCEPT ![w] = @ + 1]
       /\ IF ray_up
          THEN /\ inbox' = Push(w, [op |-> "cleanup", step |-> steps])
               /\ td_future' = "pending"
               /\ pc' = "cleanup_wait"
               /\ UNCHANGED cleanup_result
          ELSE /\ pc' = "idle"
               /\ cleanup_result' = "raised"
               /\ UNCHANGED <<inbox, td_future>>
  /\ UNCHANGED <<pt_vars, gn_vars, journal, draft_nodes, data_preview, idx, all_nodes,
                 node_futures, exec_futures, ray_up, steps, cleanups,
                 step_result, save_result, worker_journal, td_done, hist_vars>>

\* Lines 188-190: ray.get of the teardown returns; the loop goes on to the
\* next worker, and after the last one ray.shutdown() kills the actors.
AwaitTeardown ==
  /\ pc = "cleanup_wait"
  /\ td_future = "ok"
  /\ idx' = idx + 1
  /\ IF idx + 1 = num_workers
     THEN /\ ray_up' = FALSE
          /\ inbox' = [w \in Workers |-> <<>>]
          /\ cleanup_result' = "returned"
          /\ pc' = "idle"
     ELSE /\ pc' = "cleanup_issue"
          /\ UNCHANGED <<ray_up, inbox, cleanup_result>>
  /\ UNCHANGED <<pt_vars, gn_vars, journal, draft_nodes, data_preview, all_nodes,
                 node_futures, exec_futures, td_future, steps, cleanups,
                 step_result, save_result, worker_journal, td_requests,
                 td_done, hist_vars>>

\* Line 189: ray.get of the teardown raises out of cleanup(): the loop and
\* ray.shutdown() are skipped.
AwaitTeardownRaises ==
  /\ pc = "cleanup_wait"
  /\ td_future = "error"
  /\ pc' = "idle"
  /\ cleanup_result' = "raised"
  /\ UNCHANGED <<pt_vars, gn_vars, journal, draft_nodes, data_preview, idx, all_nodes,
                 node_futures, exec_futures, td_future, ray_up, steps, cleanups,
                 step_result, save_result, worker_vars, hist_vars>>

(* --------------------------- specification ----------------------------- *)
Next ==
  \/ StepBegin
  \/ IssueGenerate
  \/ AwaitGenerate
  \/ AwaitGenerateRaises
  \/ IssueEvaluate
  \/ AwaitEvaluate
  \/ AwaitEvaluateRaises
  \/ CleanupBegin
  \/ IssueTeardown
  \/ AwaitTeardown
  \/ AwaitTeardownRaises
  \/ \E w \in Workers : WorkerGenerate(w)
  \/ \E w \in Workers : WorkerEvaluate(w)
  \/ \E w \in Workers : WorkerTeardown(w)

Spec == Init /\ [][Next]_vars

\* The scheduler as Experiment.run drives it (src/aide/__init__.py, lines
\* 63-70): step() after step(), cleanup() not yet called.
RunNext ==
  \/ StepBegin
  \/ IssueGenerate
  \/ AwaitGenerate
  \/ AwaitGenerateRaises
  \/ IssueEvaluate
  \/ AwaitEvaluate
  \/ AwaitEvaluateRaises
  \/ \E w \in Workers : WorkerGenerate(w)
  \/ \E w \in Workers : WorkerEvaluate(w)

\* The scheduler's control flow, once inside step(), runs on: its next
\* statement is taken when it can be. An actor works through its queue: the
\* call at the head runs and returns or raises, it never hangs. When step()
\* is called is the caller's choice.
SchedulerRuns ==
  \/ IssueGenerate
  \/ AwaitGenerate
  \/ AwaitGenerateRaises
  \/ IssueEvaluate
  \/ AwaitEvaluate
  \/ AwaitEvaluateRaises

WorkerRuns(w) == WorkerGenerate(w) \/ WorkerEvaluate(w)

LiveSpec ==
  /\ Init
  /\ [][RunNext]_vars
  /\ WF_vars(SchedulerRuns)
  /\ \A w \in Workers : WF_vars(WorkerRuns(w))

(* -------------------- the partitioning loop on its own ----------------- *)
\* A pending sequence of n distinct nodes, named by their ids.
PendingOfLen(n) == [k \in 1..n |-> k]

PartInit ==
  /\ \E n \in 0..MaxPending : pt_nodes = PendingOfLen(n)
  /\ pt_P \in 1..MaxPool
  /\ pt_i = 0
  /\ pt_slices = <<>>
  /\ GnIdle
  /\ AgentInit(<<>>, FALSE)

\* Lines 139-142: one iteration of the dispatch loop computes worker i's slice.
PartitionIter ==
  /\ pt_i < pt_P
  /\ pt_slices' = Append(pt_slices, WorkerSlice(pt_nodes, pt_P, pt_i))
  /\ pt_i' = pt_i + 1
  /\ UNCHANGED <<pt_nodes, pt_P, gn_vars, sched_vars, worker_vars, hist_vars>>

PartNext == PartitionIter

PartSpec == PartInit /\ [][PartNext]_vars

(* ------------------ GenSpec: generate_nodes on its own ----------------- *)
\* Parents search_policy() can hand to generate_nodes: None, or an evaluated
\* node of a Journal, buggy or not.
GenParents ==
  {<<>>} \cup {<<WithVerdict(NewNode(1, 0, "draft"), v)>> : v \in Verdicts}

GenInit ==
  /\ gn_parent \in GenParents
  /\ gn_num \in 0..MaxGen
  /\ gn_step \in 1..MaxSteps
  /\ gn_worker \in Workers
  /\ gn_result = <<>>
  /\ gn_done = FALSE
  /\ PtIdle
  /\ AgentInit(<<>>, FALSE)

\* Lines 28-41: the call runs and returns its list.
GenerateCall ==
  /\ ~gn_done
  /\ gn_result' = generate_nodes(gn_step, gn_worker, gn_parent, gn_num)
  /\ gn_done' = TRUE
  /\ UNCHANGED <<gn_parent, gn_num, gn_step, gn_worker, pt_vars, sched_vars,
                 worker_vars, hist_vars>>

GenNext == GenerateCall

GenSpec == GenInit /\ [][GenNext]_vars

PartDone == pt_i = pt_P /\ Len(pt_slices) = pt_P
SliceSizes == [a \in DOMAIN pt_slices |-> Len(pt_slices[a])]
Abs(x) == IF x >= 0 THEN x ELSE -x

(* ------------------------------ claims --------------------------------- *)
\* C1: once the loop has run for all P workers, the P slices concatenated in
\* worker order are the pending sequence, and every pending node lies in
\* exactly one slice.
C1_SlicesConcatToPending ==
  PartDone =>
    /\ Concat(pt_slices) = pt_nodes
    /\ \A n \in Range(pt_nodes) :
         Cardinality({a \in DOMAIN pt_slices : n \in Range(pt_slices[a])}) = 1

C1_Witness ==
  /\ PartDone
  /\ Len(pt_nodes) = 10
  /\ pt_P = 4
  /\ SliceSizes = <<2, 2, 2, 4>>

InStep == pc \in {"propose_issue", "propose_wait", "evaluate_issue", "evaluate_wait"}
ExecStates == {exec_futures[k].state : k \in DOMAIN exec_futures}
StaleEvaluateLeft ==
  \E w \in Workers : \E r \in Range(inbox[w]) : r.op = "evaluate" /\ r.step = steps

\* C4: from the moment an evaluation request of the step has raised, every
\* step leaves the main collection and the draft list as they were when
\* step() began, the step can only end by raising, and a step() that raised
\* has left both lists as it found them.
C4_EvalFailureLeavesJournal ==
  [][ /\ AnyError(ExecStates) =>
           /\ journal' = journal_at_start /\ draft_nodes' = drafts_at_start
           /\ pc' = "idle" => step_result' = "raised"
      /\ step_result' = "raised" =>
           journal' = journal_at_start' /\ draft_nodes' = drafts_at_start'
    ]_vars

\* step() has raised on a failed evaluation while the other worker's
\* evaluation request was still queued.
C4_Witness ==
  /\ pc = "idle"
  /\ step_result = "raised"
  /\ StaleEvaluateLeft
  /\ journal = journal_at_start

\* C5, as claimed: once a cleanup() call has returned (ray is shut down), a
\* further cleanup() call raises nothing, issues no teardown request, and
\* leaves the workers and the substrate as they were.
C5_SecondCleanupNoEffect ==
  [][ (~ray_up /\ pc \in {"cleanup_issue", "cleanup_wait"}) =>
        /\ td_requests' = td_requests
        /\ td_done' = td_done
        /\ ray_up' = ray_up
        /\ cleanup_result' # "raised"
    ]_vars

\* C6, as claimed: when the first cleanup() call is over, however it ended
\* and whatever steps came before, every worker's teardown has been invoked
\* exactly once and the substrate is released.
C6_CleanupTearsDownAll ==
  (cleanups = 1 /\ pc = "idle") =>
    /\ \A w \in Workers : td_requests[w] = 1
    /\ ~ray_up

\* C7: both barriers are strict. While step() waits for the propose
\* responses every worker's propose request has been issued; an evaluate
\* request exists only when every propose response has arrived and the
\* pending sequence is all of them, in pool order; and the Journal changes
\* only in a step taken when every evaluate request of the step has been
\* issued and answered.
C7_StrictBarriers ==
  /\ [](pc = "propose_wait" =>
          \A w \in Workers : node_futures[w].state # "none")
  /\ []((pc \in {"evaluate_issue", "evaluate_wait"} \/ exec_futures # <<>>) =>
          /\ \A w \in Workers : node_futures[w].state = "ok"
          /\ all_nodes = Flatten(node_futures))
  /\ [](InStep => journal = journal_at_start /\ draft_nodes = drafts_at_start)
  /\ [][ (journal' # journal \/ draft_nodes' # draft_nodes) =>
           /\ pc = "evaluate_wait"
           /\ Len(exec_futures) = Len(all_nodes)
           /\ \A k \in DOMAIN exec_futures : exec_futures[k].state = "ok"
       ]_vars

\* The second worker's evaluation has returned, the first one's has not, and
\* the scheduler waits with the Journal untouched.
C7_Witness ==
  /\ pc = "evaluate_wait"
  /\ Len(exec_futures) = 2
  /\ exec_futures[1].state = "pending"
  /\ exec_futures[2].state = "ok"
  /\ journal = journal_at_start

\* C8: every node of the main collection and of the draft list is evaluated.
C8_JournalNodesEvaluated ==
  /\ \A k \in DOMAIN journal : Evaluated(journal[k])
  /\ \A k \in DOMAIN draft_nodes : Evaluated(draft_nodes[k])

\* A failed step and then a successful one on a Journal that began empty.
C8_Witness ==
  /\ pc = "idle"
  /\ steps = 2
  /\ step_result = "returned"
  /\ Len(journal) = 2
  /\ journal_at_start = <<>>

\* Dispatch of the current step: each node of the pending sequence has been
\* passed to exactly one evaluate call, carried by exactly one worker.
DispatchedOnce ==
  pc = "evaluate_wait" =>
    /\ Len(exec_futures) = Len(all_nodes)
    /\ \A n \in Range(all_nodes) :
         Cardinality({k \in DOMAIN exec_futures : exec_futures[k].node.id = n.id}) = 1

\* The evaluate calls of the current step still queued at worker w.
QueuedEvaluations(w) ==
  {q \in DOMAIN inbox[w] : inbox[w][q].op = "evaluate" /\ inbox[w][q].step = steps}

\* A queued evaluate call answers a future still pending, carries a node not
\* yet evaluated, and every pending future has exactly one queued call.
EvaluatedAtMostOnce ==
  (pc \in {"evaluate_issue", "evaluate_wait"}) =>
    /\ \A w \in Workers : \A q \in QueuedEvaluations(w) :
         /\ exec_futures[inbox[w][q].slot].state = "pending"
         /\ exec_futures[inbox[w][q].slot].worker = w
         /\ ~Evaluated(inbox[w][q].node)
    /\ \A k \in DOMAIN exec_futures :
         /\ exec_futures[k].state = "pending" =>
              Cardinality({q \in QueuedEvaluations(exec_futures[k].worker) :
                inbox[exec_futures[k].worker][q].slot = k}) = 1
         /\ exec_futures[k].state = "ok" => Evaluated(exec_futures[k].node)

\* Nodes already in the Journal stay as they are, is_buggy and metric included.
JournalNodesKept ==
  /\ Len(journal') >= Len(journal)
  /\ \A k \in DOMAIN journal : journal'[k] = journal[k]

\* C9, as claimed: every dispatched node is awaiting its one evaluation or has
\* had it (is_buggy and metric final), and nodes in the Journal never change.
C9_EvaluatedExactlyOnce ==
  [][ /\ DispatchedOnce'
      /\ EvaluatedAtMostOnce'
      /\ \A k \in DOMAIN exec_futures' :
           exec_futures'[k].state = "pending" \/ Evaluated(exec_futures'[k].node)
      /\ JournalNodesKept
    ]_vars

\* C9, amended: every node of the pending sequence is dispatched exactly
\* once, to one worker; its is_buggy and metric are set at most once: exactly
\* once when its evaluation returns, never when it raises (they stay unknown
\* and step() raises); nodes in the Journal never change.
C9_EvaluatedAtMostOnce ==
  [][ /\ DispatchedOnce'
      /\ EvaluatedAtMostOnce'
      /\ \A k \in DOMAIN exec_futures' :
           \/ exec_futures'[k].state = "pending"
           \/ Evaluated(exec_futures'[k].node)
           \/ exec_futures'[k].state = "error" /\ ~Evaluated(exec_futures'[k].node)
      /\ AnyError({exec_futures[k].state : k \in DOMAIN exec_futures}) =>
           journal' = journal
      /\ JournalNodesKept
    ]_vars

\* A second step has returned on a Journal that held nodes of the first.
C9_Witness ==
  /\ pc = "idle"
  /\ steps = 2
  /\ step_result = "returned"
  /\ Len(journal_at_start) >= 2
  /\ Len(journal) = Len(journal_at_start) + 2

\* C10: the draft list is the subsequence of the main collection whose nodes
\* have parent None: a node with parent None is in both, any other node in
\* the main collection only.
C10_DraftsAreParentless ==
  /\ draft_nodes = DraftsOf(journal)
  /\ \A n \in Range(journal) : (n.parent = 0) <=> (n \in Range(draft_nodes))
  /\ Range(draft_nodes) \subseteq Range(journal)

\* A step has appended a draft and a child of an earlier node.
C10_Witness ==
  /\ pc = "idle"
  /\ step_result = "returned"
  /\ \E a, b \in DOMAIN journal :
       /\ a > Len(journal_at_start) /\ b > Len(journal_at_start)
       /\ journal[a].parent = 0
       /\ journal[b].parent # 0

IsPrefix(s, t) == Len(s) <= Len(t) /\ SubSeq(t, 1, Len(s)) = s

WorkerStep == \E w \in Workers :
  WorkerGenerate(w) \/ WorkerEvaluate(w) \/ WorkerTeardown(w)

\* C11: the Journal is append-only and written only by the scheduler when it
\* aggregates: over every step of step(), of cleanup() and of a worker the
\* main collection before is a prefix of the one after (and so is the draft
\* list); it changes only in the step that takes the scheduler from the wait
\* on the evaluations to a normal return, never in a worker's step and never
\* while the scheduler proposes, partitions, dispatches or tears down.
C11_JournalAppendOnly ==
  [][/\ IsPrefix(journal, journal')
     /\ IsPrefix(draft_nodes, draft_nodes')
     /\ (journal' # journal \/ draft_nodes' # draft_nodes) =>
          /\ pc = "evaluate_wait"
          /\ pc' = "idle"
          /\ step_result' = "returned"
     /\ WorkerStep => journal' = journal /\ draft_nodes' = draft_nodes
     /\ pc' # "idle" => journal' = journal /\ draft_nodes' = draft_nodes]_vars

\* A step() that found nodes in the Journal returned after adding its own,
\* and a cleanup() ran after it.
C11_Witness ==
  /\ pc = "idle"
  /\ step_result = "returned"
  /\ cleanup_result = "returned"
  /\ journal_at_start # <<>>
  /\ IsPrefix(journal_at_start, journal)
  /\ Len(journal) > Len(journal_at_start)

\* The nodes the current or last step() added to the main collection.
Appended == SubSeq(journal, Len(journal_at_start) + 1, Len(journal))

\* C12: when the save_run at the end of step() fails, step() still returns
\* normally (the failure is only logged, here recorded as save_result
\* "failed"), and the Journal holds what it held when the step began followed
\* by every node the step aggregated, all of them evaluated.
C12_SaveFailureTolerated ==
  save_result = "failed" =>
    /\ pc = "idle" \/ pc \in {"cleanup_issue", "cleanup_wait"}
    /\ step_result = "returned"
    /\ IsPrefix(journal_at_start, journal)
    /\ Len(Appended) = num_workers * nodes_per_worker
    /\ \A k \in DOMAIN Appended : Evaluated(Appended[k])

C12_Witness ==
  /\ pc = "idle"
  /\ save_result = "failed"
  /\ step_result = "returned"
  /\ steps = 2
  /\ Len(journal) = Len(journal_at_start) + 2

\* C13, as claimed: once a step() has started on an empty Journal the
\* scheduler has fetched the data preview from a worker, exactly once however
\* many steps found the Journal empty, and the preview it then holds is a
\* computed one.
C13_PreviewFetchedOnce ==
  (steps >= 1 /\ journal_at_start = <<>>) =>
    /\ preview_fetches = 1
    /\ data_preview = "generated"

\* The strategy generate_nodes must use for a parent: drafting for None,
\* debugging for a buggy parent, improving for any other.
StageFor(parent_node) ==
  IF parent_node = <<>> THEN "draft"
  ELSE IF parent_node[1].is_buggy = "True" THEN "debug" ELSE "improve"

ParentIdOf(parent_node) == IF parent_node = <<>> THEN 0 ELSE parent_node[1].id

\* C14: a generate_nodes(parent_node, num_nodes) call that has returned gave
\* exactly num_nodes nodes (none for num_nodes = 0), all unevaluated, with
\* ids that differ from each other and from the parent's, all with the same
\* parent (none for parent None) and all made by the strategy the parent's
\* state selects.
C14_GenerateCountAndStrategy ==
  gn_done =>
    /\ Len(gn_result) = gn_num
    /\ gn_num = 0 => gn_result = <<>>
    /\ \A k \in DOMAIN gn_result :
         /\ ~Evaluated(gn_result[k])
         /\ gn_result[k].is_buggy = "None" /\ gn_result[k].metric = <<>>
         /\ gn_result[k].parent = ParentIdOf(gn_parent)
         /\ gn_result[k].stage = StageFor(gn_parent)
         /\ gn_result[k].id # ParentIdOf(gn_parent)
         /\ \A l \in DOMAIN gn_result : gn_result[l].id = gn_result[k].id => l = k

C14_Witness ==
  /\ gn_done
  /\ gn_num = 3
  /\ gn_parent # <<>>
  /\ gn_parent[1].is_buggy = "True"
  /\ Len(gn_result) = 3
  /\ gn_result[3].stage = "debug"
  /\ gn_result[3].parent = gn_parent[1].id

\* C15: an execute_and_evaluate_node call in which the sandbox run or the
\* metric derivation raised has logged the error and left an exception in
\* its future: the future holds no result node, and the node the scheduler
\* dispatched is still unevaluated, not marked buggy.
C15_EvaluateReRaises ==
  \A k \in DOMAIN exec_futures :
    exec_futures[k].tried = "raised" =>
      /\ exec_futures[k].state = "error"
      /\ exec_futures[k].logged
      /\ exec_futures[k].node = all_nodes[k]
      /\ exec_futures[k].node.is_buggy = "None"
      /\ ~Evaluated(exec_futures[k].node)

\* One evaluation raised while the other one returned its node.
C15_Witness ==
  /\ pc = "evaluate_wait"
  /\ Len(exec_futures) = 2
  /\ exec_futures[1].tried = "raised"
  /\ exec_futures[1].state = "error"
  /\ exec_futures[2].tried = "returned"
  /\ exec_futures[2].state = "ok"

\* A request of the current step that its worker has not answered.
ProposePending == \E w \in Workers : node_futures[w].state = "pending"
EvaluatePending == \E k \in DOMAIN exec_futures : exec_futures[k].state = "pending"

\* C16: nothing but the worker's answer ends a wait. In every step taken
\* while a propose or evaluate request of the current step is unanswered,
\* whatever the other workers have answered, step() does not return and
\* the Journal is left as it is; while a propose request is unanswered the
\* scheduler does not go on to partition and dispatch, and while an evaluate
\* request is unanswered it does not leave the evaluate phase except by an
\* exception. So a request that is never answered keeps the step from ever
\* aggregating or returning.
C16_NoTimeout ==
  [][/\ (ProposePending \/ EvaluatePending) =>
          /\ step_result' # "returned"
          /\ journal' = journal
          /\ draft_nodes' = draft_nodes
     /\ ProposePending =>
          \/ pc' \in {"propose_issue", "propose_wait"}
          \/ pc' = "idle" /\ step_result' = "raised"
     /\ EvaluatePending =>
          \/ pc' \in {"evaluate_issue", "evaluate_wait"}
          \/ pc' = "idle" /\ step_result' = "raised"]_vars

\* One worker has answered its propose request, the other has not, and the
\* scheduler waits.
C16_Witness ==
  /\ pc = "propose_wait"
  /\ node_futures[1].state = "ok"
  /\ node_futures[2].state = "pending"
  /\ inbox[2] # <<>>
  /\ step_result = "running"
  /\ journal = journal_at_start

\* The ids of the nodes generated in step s, worker by worker in pool order,
\* each worker's in the order it generated them.
GenerationOrder(s) ==
  Concat([w \in Workers |-> [k \in 1..nodes_per_worker |-> NodeId(s, w, k)]])

IdsOf(nodes) == [k \in DOMAIN nodes |-> nodes[k].id]

\* C17: the nodes a step() that returned has appended are, in Journal order,
\* worker 1's nodes in generation order, then worker 2's, and so on; and
\* while the evaluations are awaited the k-th result slot belongs to the k-th
\* node of that order whichever evaluations have completed so far.
C17_PoolIndexOrder ==
  /\ step_result = "returned" => IdsOf(Appended) = GenerationOrder(steps)
  /\ pc \in {"evaluate_issue", "evaluate_wait"} =>
       IdsOf(evaluated_nodes) = SubSeq(GenerationOrder(steps), 1, Len(exec_futures))

\* A second step() returned; its two workers had chosen different parents.
C17_Witness ==
  /\ step_result = "returned"
  /\ steps = 2
  /\ Len(Appended) = 2
  /\ Appended[1].stage = "improve"
  /\ Appended[2].stage = "draft"
  /\ Appended[1].id < Appended[2].id

\* The order of the phases of step(): issuing the propose requests and
\* waiting for them (proposing), building all_nodes and issuing the evaluate
\* requests (partitioning), waiting for them (evaluating), and the
\* aggregation that ends in the return to idle.
PhaseOrder ==
  {<<"idle", "propose_issue">>, <<"propose_issue", "propose_wait">>,
   <<"propose_wait", "evaluate_issue">>, <<"evaluate_issue", "evaluate_wait">>,
   <<"evaluate_wait", "idle">>}

\* A request of the current step raised.
RequestFailed ==
  \/ AnyError({node_futures[w].state : w \in Workers})
  \/ AnyError(ExecStates)

\* C18: a step() that has started on a live pool comes to an end; it ends
\* by an exception only if one of its worker requests raised, so with every
\* request returning it returns; until it ends it moves through the phases
\* in their order only; and when it has returned the Journal is what it was
\* when the step began followed by num_workers * nodes_per_worker more nodes.
C18_StepCompletes ==
  /\ (step_result = "running") ~> (step_result \in {"returned", "raised"})
  /\ [][(step_result = "running" /\ step_result' = "raised") => RequestFailed]_vars
  /\ [][(step_result' = "running" /\ pc' # pc) => <<pc, pc'>> \in PhaseOrder]_vars
  /\ [][(step_result = "running" /\ step_result' = "returned") =>
          /\ <<pc, pc'>> \in PhaseOrder
          /\ Len(all_nodes) = num_workers * nodes_per_worker
          /\ AllOk(ExecStates)]_vars
  /\ [](step_result = "returned" =>
          /\ IsPrefix(journal_at_start, journal)
          /\ Len(journal) = Len(journal_at_start) + num_workers * nodes_per_worker)

\* A first step() on a Journal of one node has returned.
C18_Witness ==
  /\ pc = "idle"
  /\ step_result = "returned"
  /\ steps = 1
  /\ Len(journal_at_start) = 1
  /\ Len(journal) = 3

\* The ids of the nodes worker w generates in step s.
GeneratedBy(s, w) == {NodeId(s, w, k) : k \in 1..nodes_per_worker}

\* For every pool size P and every K, the slice of worker i (0-based) of a
\* pending sequence of P * K nodes is its K nodes from position i * K on.
OwnSliceForAllSizes ==
  \A P \in 1..MaxPool : \A K \in 0..(MaxPending \div P) : \A i \in 0..(P - 1) :
    WorkerSlice(PendingOfLen(P * K), P, i) =
      SubSeq(PendingOfLen(P * K), i * K + 1, (i + 1) * K)

\* C19: once all_nodes is built it holds num_workers * nodes_per_worker
\* nodes, and the slice of each worker is the list that worker generated;
\* every evaluate request issued, answered or still queued, is with the
\* worker that generated its node.
C19_EvaluatedByGenerator ==
  /\ OwnSliceForAllSizes
  /\ pc \in {"evaluate_issue", "evaluate_wait"} =>
       /\ Len(all_nodes) = num_workers * nodes_per_worker
       /\ \A w \in Workers :
            WorkerSlice(all_nodes, num_workers, w - 1) = node_futures[w].nodes
       /\ \A k \in DOMAIN exec_futures :
            exec_futures[k].node.id \in GeneratedBy(steps, exec_futures[k].worker)
  /\ \A w \in Workers : \A r \in Range(inbox[w]) :
       r.op = "evaluate" => r.node.id \in GeneratedBy(r.step, w)

\* In a second step both evaluations were answered, each by the worker that
\* generated the node.
C19_Witness ==
  /\ pc = "evaluate_wait"
  /\ steps = 2
  /\ Len(exec_futures) = 2
  /\ AllOk(ExecStates)
  /\ exec_futures[1].worker = 1 /\ exec_futures[1].node.id = NodeId(2, 1, 1)
  /\ exec_futures[2].worker = 2 /\ exec_futures[2].node.id = NodeId(2, 2, 1)

\* The ids a worker's parent selection can see.
VisibleTo(w) == {n.id : n \in Range(worker_journal[w])}

\* What the requests of the scheduler carry: a propose request nothing but
\* its count (here fixed), an evaluate request one unevaluated node, a
\* cleanup request nothing.
RequestsCarryNoJournal ==
  \A w \in Workers : \A r \in Range(inbox[w]) :
    /\ r.op \in {"generate", "cleanup"} => DOMAIN r = {"op", "step"}
    /\ r.op = "evaluate" =>
         /\ DOMAIN r = {"op", "step", "slot", "node"}
         /\ ~Evaluated(r.node)

\* C20: every worker starts with the Journal the scheduler was constructed
\* on, and no step of the scheduler or of a worker changes a worker's
\* Journal: no request carries Journal content, and the parent of every node
\* a worker has generated is None or a node of that initial Journal, never a
\* node that a step has aggregated.
C20_WorkerJournalFrozen ==
  /\ \A w \in Workers : worker_journal[w] = journal
  /\ [][worker_journal' = worker_journal]_vars
  /\ [](/\ RequestsCarryNoJournal
        /\ \A w \in Workers :
             /\ IsPrefix(worker_journal[w], journal)
             /\ \A s \in 1..steps : \A v \in Workers :
                  GeneratedBy(s, v) \cap VisibleTo(w) = {}
             /\ \A k \in DOMAIN node_futures[w].nodes :
                  node_futures[w].nodes[k].parent \in {0} \cup VisibleTo(w)
        /\ \A k \in DOMAIN Appended :
             Appended[k].parent \in {0} \cup {n.id : n \in Range(worker_journal[1])})

\* In the second step of a scheduler constructed on an empty Journal a
\* worker has generated: the Journal holds the first step's nodes, the
\* worker's Journal is still empty and its node is a draft.
C20_Witness ==
  /\ steps = 2
  /\ pc = "propose_wait"
  /\ Len(journal) = 2
  /\ worker_journal[1] = <<>>
  /\ node_futures[1].state = "ok"
  /\ node_futures[1].nodes[1].stage = "draft"

====
